---- MODULE Spec2Model ----
(***************************************************************************)
(* Orchestration pipeline of the in-browser analytics app:                 *)
(*   Chat.handleMessage  (planner -> extractor* -> register -> codegen ->  *)
(*   exec), the file upload path (processFiles, render worker replies) and *)
(*   the Pyodide worker protocol (init / register / exec).                 *)
(* handleMessage is an async function: every action below is one           *)
(* synchronous segment of it, from one await to the next.                  *)
(***************************************************************************)
EXTENDS Integers, Sequences, FiniteSets, TLC

\* ---------------------------------------------------------------- bounds
MaxQueries == 1      \* Spec: queries submitted (handleMessage invocations)
MaxUploads == 2      \* processFiles invocations
MaxTasks   == 2      \* Spec: length of a planner task list
MaxConcurrentQueries == 2   \* SpecConcurrent: queries submitted
MaxConcurrentTasks   == 1   \* SpecConcurrent: length of a planner task list
MaxWorkerInbox   == 2       \* SpecWorker: messages waiting at the py worker
MaxWorkerReplies == 2       \* SpecWorker: replies of the py worker kept

\* ---------------------------------------------------------------- inputs
NoVal == "undefined"      \* a field that is absent (or an empty string): falsy

\* the workbooks a user uploads
Files == {"sample_funds.xlsx", "fund_x.xlsx"}

\* the non-empty sheets of an uploaded workbook
WorkbookSheets(f) ==
  IF f = "fund_x.xlsx" THEN {"Sheet1", "Net 1", "Net-1"} ELSE {"Sheet1"}

Task(f, s) == [fileId |-> f, sheetId |-> s]
\* the tasks a plan is made of: a sheet of each file, and a sheet that no
\* workbook has
TaskDomain == {Task("sample_funds.xlsx", "Sheet1"), Task("sample_funds.xlsx", "Returns"),
               Task("fund_x.xlsx", "Sheet1")}

SeqsUpTo(S, n) == UNION {[1..k -> S] : k \in 0..n}
TaskLists(n) == SeqsUpTo(TaskDomain, n)

\* one cell of an extracted record: a scalar or a {value, label} pair
\* (numbers are written as their JSON text)
Scalar(v)     == [kind |-> "scalar", value |-> v, label |-> NoVal]
Labeled(v, l) == [kind |-> "object", value |-> v, label |-> l]

Rec1 == [date   |-> Scalar("2020-01"),
         fund_x |-> Labeled("1.5", "Fund X"),
         fund_y |-> Labeled("2.5", "Fund Y")]

\* a record without a date field
NoDateRec == [fund_x |-> Labeled("1.5", "Fund X"),
              fund_y |-> Labeled("2.5", "Fund Y")]

\* a record that gives the column fund_x another label than Rec1 does
Relabeled == [date   |-> Scalar("2020-02"),
              fund_x |-> Labeled("1.0", "Fund A"),
              fund_y |-> Labeled("2.0", "Fund Y")]

\* a record with a column that is a plain string (ExtractedRecord allows it)
ScalarRec == [date   |-> Scalar("2020-03"),
              fund_x |-> Labeled("1.5", "Fund X"),
              fund_y |-> Labeled("2.5", "Fund Y"),
              note   |-> Scalar("estimated")]

\* a record with a column that Rec1 does not have
WideRec == [date   |-> Scalar("2020-02"),
            fund_x |-> Labeled("1.0", "Fund X"),
            fund_y |-> Labeled("2.0", "Fund Y"),
            fund_z |-> Labeled("3.0", "Fund Z")]

RecordBatches == {<<>>, <<Rec1>>, <<NoDateRec>>, <<Rec1, Relabeled>>, <<ScalarRec>>}

\* The parsed payload of a gateway response.  One shape serves the three
\* stages; a stage reads only its own fields.  has* tells whether the field
\* is present and an array.
Payload(c, ht, t, hr, rs, cl, p, k) ==
  [clarification |-> c, hasTasks |-> ht, tasks |-> t,
   hasRecords |-> hr, records |-> rs, column_labels |-> cl,
   python |-> p, result_type |-> k]
EmptyObj         == Payload(NoVal, FALSE, <<>>, FALSE, <<>>, {}, NoVal, NoVal)
ClarObj(c)       == Payload(c, FALSE, <<>>, FALSE, <<>>, {}, NoVal, NoVal)
TasksObj(t)      == Payload(NoVal, TRUE, t, FALSE, <<>>, {}, NoVal, NoVal)
RecordsObj(rs)   == Payload(NoVal, FALSE, <<>>, TRUE, rs, {}, NoVal, NoVal)
CodeObj(p, k)    == Payload(NoVal, FALSE, <<>>, FALSE, <<>>, {}, p, k)

\* the {value, label} columns of a record with their labels, as pairs, and
\* those of all records of a batch
RecordLabels(rec) ==
  {<<c, rec[c].label>> : c \in {k \in DOMAIN rec \ {"date"} : rec[k].kind = "object"}}
BatchLabels(records) == UNION {RecordLabels(records[j]) : j \in 1..Len(records)}

\* a records object that also carries column_labels, the mapping of the
\* columns of its records to their labels (column_labels absent: the empty
\* mapping, as `|| {}` makes of it)
LegendObj(rs)    == Payload(NoVal, FALSE, <<>>, TRUE, rs, BatchLabels(rs), NoVal, NoVal)

\* A JSON text: form "empty" (absent or empty string, falsy), "bad"
\* (JSON.parse throws), "{}" (the literal text {}), or "object".
Text(form, obj) == [form |-> form, obj |-> obj]
NoText    == Text("empty", EmptyObj)
BadJson   == Text("bad", EmptyObj)
Braces    == Text("{}", EmptyObj)
Json(obj) == Text("object", obj)

ClarText == "Please specify the chart type"
PyCode   == "result = df"
\* a code text that never assigns result, and one whose result is an object
\* that JSON cannot encode
NoResultCode == "print(df)"
OpaqueCode   == "result = object()"

\* the result kinds of CodeGenResult
ResultKinds == {"plot", "table", "value"}

\* A gateway response: HTTP status, whether the body has a choices array,
\* the function call name and arguments, and the text content.
Response(ok, env, fc, args, content) ==
  [ok |-> ok, choices |-> env, fc |-> fc, args |-> args, content |-> content]

\* a parsed object that carries a clarification text and a task list at once
BothObj(c, t) == Payload(c, TRUE, t, FALSE, <<>>, {}, NoVal, NoVal)

PlannerResponses(n) ==
  {Response(FALSE, TRUE, "none", NoText, NoText),
   Response(FALSE, TRUE, "extract_tasks",
            Json(TasksObj(<<Task("sample_funds.xlsx", "Sheet1")>>)), NoText),
   Response(FALSE, TRUE, "clarify_user_intent", Json(ClarObj(ClarText)), NoText),
   Response(TRUE, TRUE, "clarify_user_intent", Json(ClarObj(ClarText)),
            Json(TasksObj(<<Task("sample_funds.xlsx", "Sheet1")>>))),
   Response(TRUE, TRUE, "clarify_user_intent",
            Json(BothObj(ClarText, <<Task("sample_funds.xlsx", "Sheet1")>>)), NoText),
   Response(TRUE, TRUE, "extract_tasks",
            Json(BothObj(ClarText, <<Task("sample_funds.xlsx", "Sheet1")>>)), NoText),
   Response(TRUE, FALSE, "none", NoText, NoText),
   Response(TRUE, TRUE, "none", NoText, NoText),
   Response(TRUE, TRUE, "none", NoText, BadJson),
   Response(TRUE, TRUE, "none", NoText, Json(EmptyObj)),
   Response(TRUE, TRUE, "clarify_user_intent", Json(ClarObj(ClarText)), NoText),
   Response(TRUE, TRUE, "clarify_user_intent", Json(EmptyObj), NoText),
   Response(TRUE, TRUE, "clarify_user_intent", BadJson, NoText),
   Response(TRUE, TRUE, "clarify_user_intent", NoText, NoText),
   Response(TRUE, TRUE, "extract_tasks", BadJson, NoText),
   Response(TRUE, TRUE, "extract_tasks", Json(EmptyObj), NoText)}
  \cup {Response(TRUE, TRUE, "extract_tasks", Json(TasksObj(t)), NoText) : t \in TaskLists(n)}
  \cup {Response(TRUE, TRUE, "none", NoText, Json(TasksObj(t))) : t \in TaskLists(n)}

ExtractorResponses ==
  {Response(FALSE, TRUE, "none", NoText, NoText),
   Response(FALSE, TRUE, "extract_records", Json(RecordsObj(<<Rec1>>)), NoText),
   Response(TRUE, FALSE, "none", NoText, NoText),
   Response(TRUE, TRUE, "none", NoText, NoText),
   Response(TRUE, TRUE, "extract_records", Braces, NoText),
   Response(TRUE, TRUE, "extract_records", BadJson, NoText),
   Response(TRUE, TRUE, "extract_records", Json(EmptyObj), NoText),
   Response(TRUE, TRUE, "none", NoText, Json(EmptyObj))}
  \cup {Response(TRUE, TRUE, "extract_records", Json(RecordsObj(b)), NoText) : b \in RecordBatches}
  \cup {Response(TRUE, TRUE, "none", NoText, Json(RecordsObj(b))) : b \in RecordBatches}

CodeGenResponses ==
  {Response(FALSE, TRUE, "none", NoText, NoText),
   Response(FALSE, TRUE, "generate_python_code", Json(CodeObj(PyCode, "plot")), NoText),
   Response(TRUE, FALSE, "none", NoText, NoText),
   Response(TRUE, TRUE, "none", NoText, NoText),
   Response(TRUE, TRUE, "generate_python_code", Braces, NoText),
   Response(TRUE, TRUE, "generate_python_code", BadJson, NoText),
   Response(TRUE, TRUE, "generate_python_code", Json(CodeObj(NoVal, "plot")), NoText),
   Response(TRUE, TRUE, "generate_python_code", Json(CodeObj(PyCode, NoVal)), NoText),
   Response(TRUE, TRUE, "generate_python_code", Json(CodeObj(PyCode, "plot")), NoText),
   Response(TRUE, TRUE, "none", NoText, Json(CodeObj(PyCode, "table"))),
   Response(TRUE, TRUE, "generate_python_code", Json(CodeObj(PyCode, "value")), NoText),
   Response(TRUE, TRUE, "generate_python_code", Json(CodeObj(PyCode, "chart")), NoText),
   Response(TRUE, TRUE, "generate_python_code", Json(CodeObj(NoResultCode, "plot")), NoText),
   Response(TRUE, TRUE, "generate_python_code", Json(CodeObj(OpaqueCode, "value")), NoText)}

\* ------------------------------------------------- pure helpers of Chat.tsx
Truthy(text)      == text.form # "empty"
ParseThrows(text) == text.form \in {"empty", "bad"}

AlnumChars ==
  {"a","b","c","d","e","f","g","h","i","j","k","l","m","n","o","p","q","r","s",
   "t","u","v","w","x","y","z","A","B","C","D","E","F","G","H","I","J","K","L",
   "M","N","O","P","Q","R","S","T","U","V","W","X","Y","Z","0","1","2","3","4",
   "5","6","7","8","9"}

RECURSIVE SanitizeFrom(_, _)
SanitizeFrom(s, i) ==
  IF i > Len(s) THEN ""
  ELSE (IF SubSeq(s, i, i) \in AlnumChars THEN SubSeq(s, i, i) ELSE "_")
       \o SanitizeFrom(s, i + 1)

\* key.replace(/[^a-z0-9]/gi, '_')
Sanitize(s) == SanitizeFrom(s, 1)

\* the key of extractedData for a task
DataKey(task) == task.fileId \o "_" \o task.sheetId

\* a dfName that sanitizes the fileId and takes the sheetId as it is
ExecDfNameRawSheet(task) == Sanitize(task.fileId) \o "_" \o task.sheetId

\* the dfName of the exec message of a task
ExecDfName(task) == Sanitize(task.fileId) \o "_" \o Sanitize(task.sheetId)

Sheet(f, s) == [fileId |-> f, sheetId |-> s]

\* sheets.find(s => s.fileId === task.fileId && s.sheetId === task.sheetId)
SheetFound(task, inventory) == Sheet(task.fileId, task.sheetId) \in inventory

\* the first task at or after position from whose sheet is found; tasks whose
\* sheet is not found are passed over by the loop's continue
NextTask(tasks, from, inventory) ==
  LET hits == {j \in from..Len(tasks) : SheetFound(tasks[j], inventory)}
  IN IF hits = {} THEN Len(tasks) + 1
     ELSE CHOOSE j \in hits : \A k \in hits : j <= k

\* validFileIds.includes(t.fileId) fails for some task
HasInvalidFileId(tasks, inventory) ==
  \E j \in 1..Len(tasks) : \A sh \in inventory : sh.fileId # tasks[j].fileId

FallbackClarification == "Sorry, I need more information to proceed."

\* the text shown for a clarify_user_intent call
ClarificationMsg(args) ==
  IF ParseThrows(args) THEN FallbackClarification ELSE args.obj.clarification

Outcome(kind, text, tasks, records, python, resultType) ==
  [kind |-> kind, text |-> text, tasks |-> tasks, records |-> records,
   python |-> python, result_type |-> resultType]
Throw(text)         == Outcome("throw", text, <<>>, <<>>, NoVal, NoVal)
ParseError(text)    == Outcome("error", text, <<>>, <<>>, NoVal, NoVal)
Clarify(text)       == Outcome("clarify", text, <<>>, <<>>, NoVal, NoVal)
Tasks(t)            == Outcome("tasks", NoVal, t, <<>>, NoVal, NoVal)
Records(rs)         == Outcome("records", NoVal, <<>>, rs, NoVal, NoVal)
Code(p, k)          == Outcome("code", NoVal, <<>>, <<>>, p, k)

\* a planner stage that reads the function call before it looks at the status
PlannerOutcomeBodyFirst(resp, inventory) ==
  IF ~resp.choices THEN Throw("TypeError")
  ELSE IF resp.fc = "clarify_user_intent" THEN Clarify(ClarificationMsg(resp.args))
  ELSE IF resp.fc = "extract_tasks" /\ Truthy(resp.args) THEN
    IF ParseThrows(resp.args) THEN ParseError("SyntaxError")
    ELSE IF ~resp.args.obj.hasTasks THEN ParseError("Function response missing tasks array")
    ELSE IF HasInvalidFileId(resp.args.obj.tasks, inventory)
         THEN ParseError("Tasks contain invalid fileIds")
    ELSE Tasks(resp.args.obj.tasks)
  ELSE IF ~resp.ok THEN Throw("Planner API error")
  ELSE IF Truthy(resp.content) THEN
    IF ParseThrows(resp.content) THEN ParseError("SyntaxError")
    ELSE IF ~resp.content.obj.hasTasks THEN ParseError("Message response missing tasks array")
    ELSE Tasks(resp.content.obj.tasks)
  ELSE ParseError("Response missing valid message structure")

\* What the planner stage makes of a response.  "throw" reaches the outer
\* catch; "error" is the inner catch, which reports and returns.
PlannerOutcome(resp, inventory) ==
  IF ~resp.ok THEN Throw("Planner API error")
  ELSE IF ~resp.choices THEN Throw("TypeError")
  ELSE IF resp.fc = "clarify_user_intent" THEN Clarify(ClarificationMsg(resp.args))
  ELSE IF resp.fc = "extract_tasks" /\ Truthy(resp.args) THEN
    IF ParseThrows(resp.args) THEN ParseError("SyntaxError")
    ELSE IF ~resp.args.obj.hasTasks THEN ParseError("Function response missing tasks array")
    ELSE IF HasInvalidFileId(resp.args.obj.tasks, inventory)
         THEN ParseError("Tasks contain invalid fileIds")
    ELSE Tasks(resp.args.obj.tasks)
  ELSE IF Truthy(resp.content) THEN
    IF ParseThrows(resp.content) THEN ParseError("SyntaxError")
    ELSE IF ~resp.content.obj.hasTasks THEN ParseError("Message response missing tasks array")
    ELSE Tasks(resp.content.obj.tasks)
  ELSE ParseError("Response missing valid message structure")

NonEmpty(out) ==
  IF out.kind = "records" /\ Len(out.records) = 0
  THEN Throw("Failed to parse extractor response: No records were extracted from the sheet")
  ELSE out

\* What the extractor stage makes of a response; every failure is thrown to
\* the outer catch.
ExtractorOutcome(resp) ==
  IF ~resp.ok THEN Throw("Extractor API error")
  ELSE IF ~resp.choices THEN Throw("Failed to parse extractor response: TypeError")
  ELSE IF Truthy(resp.args) THEN
    IF resp.args.form = "{}"
    THEN Throw("Failed to parse extractor response: Extractor returned empty data")
    ELSE IF ParseThrows(resp.args)
    THEN Throw("Failed to parse extractor response: SyntaxError")
    ELSE IF ~resp.args.obj.hasRecords
    THEN Throw("Failed to parse extractor response: Function response missing records array")
    ELSE NonEmpty(Records(resp.args.obj.records))
  ELSE IF Truthy(resp.content) THEN
    IF ParseThrows(resp.content)
    THEN Throw("Failed to parse extractor response: SyntaxError")
    ELSE IF ~resp.content.obj.hasRecords
    THEN Throw("Failed to parse extractor response: Message response missing records array")
    ELSE NonEmpty(Records(resp.content.obj.records))
  ELSE Throw("Failed to parse extractor response: Response missing valid message structure")

RequiredFields(out) ==
  IF out.kind = "code" /\ (out.python = NoVal \/ out.result_type = NoVal)
  THEN Throw("Failed to parse code generation response: Generated code missing required fields")
  ELSE out

\* What one iteration of the exec loop makes of the code generation response
\* body (status already checked).
CodeGenOutcome(resp) ==
  IF ~resp.choices THEN Throw("Failed to parse code generation response: TypeError")
  ELSE IF Truthy(resp.args) THEN
    IF resp.args.form = "{}"
    THEN Throw("Failed to parse code generation response: Code generator returned empty data")
    ELSE IF ParseThrows(resp.args)
    THEN Throw("Failed to parse code generation response: SyntaxError")
    ELSE RequiredFields(Code(resp.args.obj.python, resp.args.obj.result_type))
  ELSE IF Truthy(resp.content) THEN
    IF ParseThrows(resp.content)
    THEN Throw("Failed to parse code generation response: SyntaxError")
    ELSE RequiredFields(Code(resp.content.obj.python, resp.content.obj.result_type))
  ELSE Throw("Failed to parse code generation response: Response missing valid message structure")

\* columnLabels = functionArgs.column_labels || {} (content.column_labels on
\* the text path), taken with the records of an accepted response
ColumnLabels(resp) ==
  IF Truthy(resp.args) THEN resp.args.obj.column_labels
  ELSE resp.content.obj.column_labels

\* extractedData[key] = records: a new key is appended, an existing key keeps
\* its position (Object.entries order)
SetEntry(data, key, records) ==
  IF \E j \in 1..Len(data) : data[j].key = key
  THEN [j \in 1..Len(data) |->
          IF data[j].key = key THEN [key |-> key, records |-> records] ELSE data[j]]
  ELSE Append(data, [key |-> key, records |-> records])

\* one record as it is registered: date, and the value of every column that
\* is a {value, label} object
ProcessRecord(r) ==
  [c \in {"date"} \cup {k \in DOMAIN r \ {"date"} : r[k].kind = "object"} |->
     IF c = "date"
     THEN (IF "date" \in DOMAIN r THEN r["date"].value ELSE NoVal)
     ELSE r[c].value]

ProcessedRecords(records) == [j \in 1..Len(records) |-> ProcessRecord(records[j])]

\* ------------------------------------------------------------- WidgetGrid
\* a figure: whether it has a data property, and its layout, given by its
\* title (NoVal: no layout property)
Figure(d, l) == [data |-> d, layout |-> l]
HarnessTitle == "Cumulative Fund Growth"
Titles  == {HarnessTitle, "Returns"}
Figures == {Figure(d, l) : d \in BOOLEAN, l \in Titles \cup {NoVal}}
NoFigure == Figure(FALSE, NoVal)

\* the text json.dumps(plot_data) of the exec harness
HarnessFigureText == "figure json"

\* JSON.stringify of a figure: a property that is undefined is left out
StringifyFigure(fig) ==
  "{" \o (IF fig.data THEN "\"data\":[]" ELSE "")
      \o (IF fig.data /\ fig.layout # NoVal THEN "," ELSE "")
      \o (IF fig.layout # NoVal
          THEN "\"layout\":{\"title\":\"" \o fig.layout \o "\"}" ELSE "") \o "}"

\* JSON.parse of a payload text: the figure, or a SyntaxError
ParseFigure(text) ==
  IF text = HarnessFigureText THEN [ok |-> TRUE, figure |-> Figure(TRUE, HarnessTitle)]
  ELSE IF \E fig \in Figures : StringifyFigure(fig) = text
  THEN [ok |-> TRUE, figure |-> CHOOSE fig \in Figures : StringifyFigure(fig) = text]
  ELSE [ok |-> FALSE, figure |-> NoFigure]

\* a payload on the window: a string (typeof payload === 'string') or a
\* structured value
StringPayload(text)  == [isString |-> TRUE, text |-> text, value |-> NoFigure]
ObjectPayload(fig)   == [isString |-> FALSE, text |-> NoVal, value |-> fig]

\* !payload: an absent or empty string
FalsyPayload(payload) == payload.isString /\ payload.text \in {NoVal, ""}

\* the message window.postMessage delivers for a worker reply
WindowMessage(rep) ==
  [type |-> rep.type, resultType |-> rep.resultType, payload |-> StringPayload(rep.payload)]

\* typeof payload === 'string'
Encoding(msg) == IF msg.payload.isString THEN "string" ELSE "object"

\* the plot container: empty, or holding the figure of Plotly.newPlot
EmptyPlot      == [content |-> "empty", figure |-> NoFigure]
Rendered(fig)  == [content |-> "figure", figure |-> fig]

\* a listener that reads data and layout off the payload as it arrives
WidgetFigureNoParse(payload) ==
  [ok |-> TRUE, figure |-> IF payload.isString THEN NoFigure ELSE payload.value]

\* the figure the listener renders from a payload
WidgetFigure(payload) ==
  IF payload.isString THEN ParseFigure(payload.text)
  ELSE [ok |-> TRUE, figure |-> payload.value]

\* WidgetGrid handleMessage: the container after a window message
WidgetHandleMessage(container, msg) ==
  IF msg.type # "result" THEN container
  ELSE IF msg.resultType # "plot" THEN container
  ELSE IF FalsyPayload(msg.payload) THEN container
  ELSE LET parsed == WidgetFigure(msg.payload) IN
       IF ~parsed.ok THEN EmptyPlot
       ELSE IF ~parsed.figure.data \/ parsed.figure.layout = NoVal THEN EmptyPlot
       ELSE Rendered(parsed.figure)

\* ------------------------------------------------------------------ state
VARIABLES
  sheets,        \* App state: the sheet inventory, a set of Sheet(fileId, sheetId)
  isProcessing,  \* Chat state: the processing flag
  messages,      \* Chat state: the chat, a sequence of Message
  runs,          \* per query: the locals of its handleMessage invocation
  nQueries,      \* queries submitted so far
  fileReads,     \* processFiles invocations awaiting file.arrayBuffer()
  nUploads,      \* processFiles invocations so far
  renderInbox,   \* messages posted to the render worker, not yet handled
  renderReplies, \* render worker replies whose handler has not finished
  py,            \* py-worker: the interpreter, "undefined" until init has loaded it
  pyInit,        \* py-worker: the await the init handler is suspended at
  pyTables,      \* py-worker: the dataframes bound in the interpreter's globals
  pyInbox,       \* messages posted to the py worker, not yet handled
  pyOutbox,      \* py worker replies not yet delivered to pyWorker.onmessage
  published,     \* results forwarded with window.postMessage
  plot,          \* WidgetGrid: the content of the plot container
  event,         \* WidgetGrid: how the payload of the last window message was encoded
  env            \* import.meta.env.VITE_OPENAI_KEY, "undefined" when not set

vars == <<sheets, isProcessing, messages, runs, nQueries, fileReads, nUploads,
          renderInbox, renderReplies, py, pyInit, pyTables, pyInbox, pyOutbox,
          published, plot, event, env>>

chatVars   == <<sheets, isProcessing, messages, runs, nQueries>>
uploadVars == <<fileReads, nUploads, renderInbox, renderReplies>>
pyVars     == <<py, pyInit, pyTables, pyInbox, pyOutbox, published>>

QueryIds ==
  1..(IF MaxQueries > MaxConcurrentQueries THEN MaxQueries ELSE MaxConcurrentQueries)

\* a chat entry; run is the query it belongs to (0: none), kind says which
\* setMessages call appended it.  The text interpolated into an error entry
\* is not kept: every error entry reads "Error: ..."
Message(r, kind, text) == [run |-> r, kind |-> kind, text |-> text]

\* a message posted to the py worker (run: the query that posted it, 0 for
\* the init posted at mount)
PyMsg(type, r, name, records, code, resultType) ==
  [type |-> type, run |-> r, name |-> name, records |-> records,
   code |-> code, resultType |-> resultType]

\* a reply of the py worker (re: the request it answers)
PyReply(type, re, r, resultType, payload) ==
  [type |-> type, re |-> re, run |-> r, resultType |-> resultType, payload |-> payload]

NoRun ==
  [pc |-> "idle", sheets |-> {}, tasks |-> <<>>, i |-> 0, extractedData |-> <<>>,
   columnLabels |-> {},
   outcome |-> "none", failed |-> FALSE,
   nPlanner |-> 0, nExtract |-> 0, nCodeGen |-> 0, nRegister |-> 0, nExec |-> 0]

EmptyTables == [n \in {} |-> <<>>]

\* the key of a configured session (README: VITE_OPENAI_KEY=sk-...)
ConfiguredKey == "sk-..."

\* the state at mount, for a session whose key is key
InitWith(key) ==
  /\ sheets = {}
  /\ isProcessing = FALSE
  /\ messages = <<>>
  /\ runs = [q \in QueryIds |-> NoRun]
  /\ nQueries = 0
  /\ fileReads = <<>>
  /\ nUploads = 0
  /\ renderInbox = <<>>
  /\ renderReplies = <<>>
  /\ py = "undefined"
  /\ pyInit = "none"
  /\ pyTables = EmptyTables
  /\ pyInbox = <<PyMsg("init", 0, NoVal, <<>>, NoVal, NoVal)>>
  /\ pyOutbox = <<>>
  /\ published = <<>>
  /\ plot = EmptyPlot
  /\ event = "none"
  /\ env = key

Init == InitWith(ConfiguredKey)

\* ------------------------------------------------------ Chat.handleMessage
\* the input's onKeyDown test and its disabled attribute
SubmitAllowed(flag) == ~flag

\* a run that leaves the flag as it found it
FlagKept(flag) == flag

\* the processing flag a run leaves behind: the finally block (and the two
\* early returns) call setIsProcessing(false)
FlagAfterRun(flag) == FALSE

\* the register messages of a run, one per entry of extractedData
RegisterMessages(r, data) ==
  [j \in 1..Len(data) |->
     PyMsg("register", r, Sanitize(data[j].key), ProcessedRecords(data[j].records),
           NoVal, NoVal)]

\* the exec messages of a run, one per task
ExecMessages(r, tasks, out) ==
  [j \in 1..Len(tasks) |->
     PyMsg("exec", r, ExecDfName(tasks[j]), <<>>, out.python, out.result_type)]

\* the run ends: return or fall out of the try, through finally; the locals
\* of the invocation are gone, its history counters stay
EndRun(r, run, outcome, failed, msgs) ==
  /\ runs' = [runs EXCEPT ![r] =
                [run EXCEPT !.pc = "done", !.outcome = outcome, !.failed = failed,
                            !.sheets = {}, !.tasks = <<>>, !.i = 0,
                            !.extractedData = <<>>, !.columnLabels = {}]]
  /\ messages' = messages \o msgs
  /\ isProcessing' = FlagAfterRun(isProcessing)

\* what the outer catch appends to the chat (lines 648-651)
OuterCatchMessages(r, text) == <<Message(r, "error", "Error: ...")>>

\* an inner catch that reports and throws again to the outer catch
ReportAndRethrow(r, text) ==
  <<Message(r, "error", "Error: ..."), Message(r, "error", "Error: ...")>>

\* what the planner's inner catch appends to the chat before it returns
\* (lines 242-251)
PlannerCatchMessages(r, text) == <<Message(r, "error", "Error: ...")>>

\* an outer catch that sends a failed planner request once more
CatchOuterRetriesOnce(r, run, text) ==
  IF run.pc = "planner" /\ run.nPlanner < 2
  THEN /\ runs' = [runs EXCEPT ![r] = [run EXCEPT !.nPlanner = @ + 1]]
       /\ UNCHANGED <<messages, isProcessing>>
  ELSE EndRun(r, run, "error", TRUE, OuterCatchMessages(r, text))

\* outer catch: one error entry, then finally
CatchOuter(r, run, text) ==
  EndRun(r, run, "error", TRUE, OuterCatchMessages(r, text))

\* a clarify_user_intent branch that shows the text and goes on to extraction
\* with the tasks the planner stage holds at that point (none)
ClarificationThenExtraction(r, run, text) ==
  /\ runs' = [runs EXCEPT ![r] = [run EXCEPT !.pc = "codegen", !.i = 1, !.nCodeGen = @ + 1]]
  /\ messages' = Append(messages, Message(r, "clarification", text))
  /\ UNCHANGED <<isProcessing, pyInbox>>

\* a clarify_user_intent branch without its return: the text is shown and the
\* dispatch below it finds no task list
ClarificationFallsThrough(r, run, text) ==
  /\ EndRun(r, run, "error", TRUE,
            <<Message(r, "clarification", text)>> \o PlannerCatchMessages(r, text))
  /\ UNCHANGED pyInbox

\* the clarify_user_intent branch: show the text, clear the flag, return
OnClarification(r, run, text) ==
  /\ EndRun(r, run, "clarification", FALSE, <<Message(r, "clarification", text)>>)
  /\ UNCHANGED pyInbox

\* an extraction loop that registers what it has extracted so far before it
\* requests the next task
ExtractFromEager(r, run, from) ==
  LET j == NextTask(run.tasks, from, run.sheets) IN
  /\ runs' = [runs EXCEPT ![r] =
                [run EXCEPT !.pc = IF j <= Len(run.tasks) THEN "extractor" ELSE "codegen",
                            !.i = j,
                            !.nExtract = IF j <= Len(run.tasks) THEN @ + 1 ELSE @,
                            !.nCodeGen = IF j <= Len(run.tasks) THEN @ ELSE @ + 1,
                            !.nRegister = @ + Len(run.extractedData)]]
  /\ pyInbox' = pyInbox \o RegisterMessages(r, run.extractedData)

\* an extraction loop that requests code generation along with the first
\* extraction, and registers when the loop is left
ExtractFromCodeGenFirst(r, run, from) ==
  LET j == NextTask(run.tasks, from, run.sheets) IN
  IF j <= Len(run.tasks)
  THEN /\ runs' = [runs EXCEPT ![r] =
                     [run EXCEPT !.pc = "extractor", !.i = j, !.nExtract = @ + 1,
                                 !.nCodeGen = IF run.nExtract = 0 THEN 1 ELSE @]]
       /\ UNCHANGED pyInbox
  ELSE /\ runs' = [runs EXCEPT ![r] =
                     [run EXCEPT !.pc = "codegen", !.i = j,
                                 !.nCodeGen = IF run.nExtract = 0 THEN 1 ELSE @,
                                 !.nRegister = @ + Len(run.extractedData)]]
       /\ pyInbox' = pyInbox \o RegisterMessages(r, run.extractedData)

\* the extraction loop from task position from: request the next task whose
\* sheet is found, or leave the loop, register and request code generation
ExtractFrom(r, run, from) ==
  LET j == NextTask(run.tasks, from, run.sheets) IN
  IF j <= Len(run.tasks)
  THEN /\ runs' = [runs EXCEPT ![r] =
                     [run EXCEPT !.pc = "extractor", !.i = j, !.nExtract = @ + 1]]
       /\ UNCHANGED pyInbox
  ELSE /\ runs' = [runs EXCEPT ![r] =
                     [run EXCEPT !.pc = "codegen", !.i = j, !.nCodeGen = @ + 1,
                                 !.nRegister = @ + Len(run.extractedData)]]
       /\ pyInbox' = pyInbox \o RegisterMessages(r, run.extractedData)

\* a failed extraction that is reported while the loop carries on
ExtractorFailureSkipsTask(r, run, text) ==
  /\ ExtractFrom(r, [run EXCEPT !.failed = TRUE], run.i + 1)
  /\ messages' = messages \o OuterCatchMessages(r, text)
  /\ UNCHANGED isProcessing

\* a failed extraction: the error is thrown out of the loop to the outer catch
ExtractorFailure(r, run, text) ==
  /\ CatchOuter(r, run, text)
  /\ UNCHANGED pyInbox

\* a submission that sets the processing flag before it looks at the inventory
SubmitFlagsFirst(maxQueries) ==
  /\ SubmitAllowed(isProcessing)
  /\ nQueries < maxQueries
  /\ nQueries' = nQueries + 1
  /\ isProcessing' = TRUE
  /\ LET r == nQueries + 1 IN
     IF sheets = {}
     THEN /\ messages' = messages \o <<Message(r, "user", "query"),
                                       Message(r, "info", "Please drop an Excel file first")>>
          /\ runs' = [runs EXCEPT ![r] = [NoRun EXCEPT !.pc = "done", !.outcome = "nodata"]]
     ELSE /\ messages' = Append(messages, Message(r, "user", "query"))
          /\ runs' = [runs EXCEPT ![r] =
                        [NoRun EXCEPT !.pc = "planner", !.sheets = sheets, !.nPlanner = 1]]
  /\ UNCHANGED <<sheets, uploadVars, pyVars, plot, event, env>>

\* Enter in the input: lines 61-190, up to the planner fetch
Submit(maxQueries) ==
  /\ SubmitAllowed(isProcessing)
  /\ nQueries < maxQueries
  /\ nQueries' = nQueries + 1
  /\ LET r == nQueries + 1 IN
     IF sheets = {}
     THEN /\ messages' = messages \o <<Message(r, "user", "query"),
                                       Message(r, "info", "Please drop an Excel file first")>>
          /\ runs' = [runs EXCEPT ![r] = [NoRun EXCEPT !.pc = "done", !.outcome = "nodata"]]
          /\ UNCHANGED isProcessing
     ELSE /\ messages' = Append(messages, Message(r, "user", "query"))
          /\ isProcessing' = TRUE
          /\ runs' = [runs EXCEPT ![r] =
                        [NoRun EXCEPT !.pc = "planner", !.sheets = sheets, !.nPlanner = 1]]
  /\ UNCHANGED <<sheets, uploadVars, pyVars, plot, event, env>>

\* the planner fetch resolves: lines 192-266
PlannerReply(r, responses) ==
  /\ runs[r].pc = "planner"
  /\ \E resp \in responses :
       LET out == PlannerOutcome(resp, runs[r].sheets) IN
       CASE out.kind = "throw" ->
              /\ CatchOuter(r, runs[r], out.text)
              /\ UNCHANGED pyInbox
         [] out.kind = "error" ->
              /\ EndRun(r, runs[r], "error", TRUE, PlannerCatchMessages(r, out.text))
              /\ UNCHANGED pyInbox
         [] out.kind = "clarify" -> OnClarification(r, runs[r], out.text)
         [] out.kind = "tasks" ->
              /\ ExtractFrom(r, [runs[r] EXCEPT !.tasks = out.tasks], 1)
              /\ UNCHANGED <<messages, isProcessing>>
  /\ UNCHANGED <<sheets, nQueries, uploadVars, py, pyInit, pyTables, pyOutbox,
                 published, plot, event, env>>

\* an extractor fetch resolves: lines 425-471, then the loop, then 473-519
ExtractorReply(r, responses) ==
  /\ runs[r].pc = "extractor"
  /\ \E resp \in responses :
       LET out == ExtractorOutcome(resp)
           run == runs[r]
       IN
       IF out.kind = "throw"
       THEN ExtractorFailure(r, run, out.text)
       ELSE /\ ExtractFrom(r, [run EXCEPT !.extractedData =
                                  SetEntry(@, DataKey(run.tasks[run.i]), out.records),
                                            !.columnLabels = ColumnLabels(resp)],
                           run.i + 1)
            /\ UNCHANGED <<messages, isProcessing>>
  /\ UNCHANGED <<sheets, nQueries, uploadVars, py, pyInit, pyTables, pyOutbox,
                 published, plot, event, env>>

\* the code generation fetch resolves: lines 606-653
CodeGenReply(r, responses) ==
  /\ runs[r].pc = "codegen"
  /\ \E resp \in responses :
       LET out == CodeGenOutcome(resp)
           run == runs[r]
       IN
       IF ~resp.ok
       THEN /\ CatchOuter(r, run, "Code generation API error")
            /\ UNCHANGED pyInbox
       ELSE IF Len(run.tasks) > 0 /\ out.kind = "throw"
       THEN /\ CatchOuter(r, run, out.text)
            /\ UNCHANGED pyInbox
       ELSE /\ EndRun(r, [run EXCEPT !.nExec = @ + Len(run.tasks)], "completed", FALSE, <<>>)
            /\ pyInbox' = pyInbox \o ExecMessages(r, run.tasks, out)
  /\ UNCHANGED <<sheets, nQueries, uploadVars, py, pyInit, pyTables, pyOutbox,
                 published, plot, event, env>>

\* ------------------------------------------------------------ file upload
\* file.name.endsWith('.xlsx')
IsXlsx(f) == f \in Files

\* processFiles up to its first await: setIsProcessing(true).  One file is
\* dropped or selected at a time.
ProcessFilesStart(f) ==
  /\ nUploads < MaxUploads
  /\ nUploads' = nUploads + 1
  /\ isProcessing' = TRUE
  /\ fileReads' = Append(fileReads, f)
  /\ UNCHANGED <<sheets, messages, runs, nQueries, renderInbox, renderReplies, pyVars, plot, event, env>>

\* onDrop of the chat panel: not gated by the processing flag
HandleFileDrop == \E f \in Files : ProcessFilesStart(f)

\* the Upload button (disabled while processing) and the file input
HandleFileSelect == ~isProcessing /\ \E f \in Files : ProcessFilesStart(f)

RemoveAt(q, k) == [j \in 1..(Len(q) - 1) |-> IF j < k THEN q[j] ELSE q[j + 1]]

\* processFiles after the file is read: post to the render worker (a file
\* that is not .xlsx is skipped), or catch a failed read; then finally
ProcessFilesFinish ==
  /\ \E k \in 1..Len(fileReads) :
       /\ fileReads' = RemoveAt(fileReads, k)
       /\ \/ /\ renderInbox' = IF IsXlsx(fileReads[k])
                               THEN Append(renderInbox, fileReads[k]) ELSE renderInbox
             /\ UNCHANGED messages
          \/ /\ IsXlsx(fileReads[k])
             /\ messages' = Append(messages, Message(0, "error", "Error: ..."))
             /\ UNCHANGED renderInbox
  /\ isProcessing' = FALSE
  /\ UNCHANGED <<sheets, runs, nQueries, nUploads, renderReplies, pyVars, plot, event, env>>

RenderReply(type, f, sheetIds) == [type |-> type, fileId |-> f, sheetIds |-> sheetIds]

\* render worker self.onmessage: one html reply with the non-empty sheets of
\* the workbook, or an error reply (unreadable bytes, no sheet)
RenderWorkerOnMessage ==
  /\ renderInbox # <<>>
  /\ renderInbox' = Tail(renderInbox)
  /\ LET f == Head(renderInbox) IN
     \/ /\ WorkbookSheets(f) # {}
        /\ renderReplies' = Append(renderReplies, RenderReply("html", f, WorkbookSheets(f)))
     \/ renderReplies' = Append(renderReplies, RenderReply("error", f, {}))
  /\ UNCHANGED <<chatVars, fileReads, nUploads, pyVars, plot, event, env>>

\* renderWorker.onmessage in Chat: the handler of one reply runs to its end.
\* An html reply replaces the inventory by the sheets of that reply.  The
\* handler of an html reply awaits the conversions, so a later reply may be
\* finished first; an error reply is handled when it is delivered.
RenderReplyHandled ==
  /\ \E k \in 1..Len(renderReplies) :
       LET rep == renderReplies[k] IN
       /\ \A j \in 1..(k - 1) : renderReplies[j].type = "html"
       /\ renderReplies' = RemoveAt(renderReplies, k)
       /\ \/ /\ rep.type = "html"
             /\ sheets' = {Sheet(rep.fileId, s) : s \in rep.sheetIds}
             /\ UNCHANGED messages
          \/ /\ rep.type = "html"
             /\ messages' = Append(messages, Message(0, "error", "Error: ..."))
             /\ UNCHANGED sheets
          \/ /\ rep.type = "error"
             /\ messages' = Append(messages, Message(0, "error", "Error: ..."))
             /\ UNCHANGED sheets
  /\ isProcessing' = FALSE
  /\ UNCHANGED <<runs, nQueries, fileReads, nUploads, renderInbox, pyVars, plot, event, env>>

\* -------------------------------------------------------------- py worker
\* the table the exec harness of py-worker.ts reads
DemoTable == "sample_funds_xlsx_Sheet1"

\* a register that adds the rows to the table the name is already bound to
BindTableAppend(tables, name, rows) ==
  [n \in DOMAIN tables \cup {name} |->
     IF n = name THEN (IF n \in DOMAIN tables THEN tables[n] \o rows ELSE rows)
     ELSE tables[n]]

\* globals()[name] = df: the name is bound to the new rows
BindTable(tables, name, rows) ==
  [n \in DOMAIN tables \cup {name} |-> IF n = name THEN rows ELSE tables[n]]

\* the columns of a registered dataframe: the keys that some row defines (a
\* key whose value is undefined is dropped by JSON.stringify)
Columns(rows) ==
  {c \in UNION {DOMAIN rows[j] : j \in 1..Len(rows)} :
     \E j \in 1..Len(rows) : c \in DOMAIN rows[j] /\ rows[j][c] # NoVal}

\* the harness computes its figure from the columns date, fund_x and fund_y
ExecSucceeds(tables) ==
  /\ DemoTable \in DOMAIN tables
  /\ {"date", "fund_x", "fund_y"} \subseteq Columns(tables[DemoTable])

ErrorReply(msg) == PyReply("error", msg.type, msg.run, NoVal, NoVal)

\* init, up to await loadPyodide
PyInitStart ==
  /\ pyInbox # <<>> /\ Head(pyInbox).type = "init"
  /\ pyInbox' = Tail(pyInbox)
  /\ pyInit' = "loadPyodide"
  /\ UNCHANGED <<chatVars, uploadVars, py, pyTables, pyOutbox, published, plot, event, env>>

\* loadPyodide, loadPackage and the setup code resolve: py is assigned a new
\* interpreter, whose globals hold no table, and ready is posted; or
\* loadPyodide rejects and the outer catch replies error, py as it was; or a
\* later step rejects, with py already assigned an interpreter that has no
\* pandas, which serves no register and no exec
PyInitDone ==
  /\ pyInit = "loadPyodide"
  /\ pyInit' = "none"
  /\ \/ /\ py' = "ready"
        /\ pyTables' = EmptyTables
        /\ pyOutbox' = Append(pyOutbox, PyReply("ready", "init", 0, NoVal, NoVal))
     \/ /\ pyOutbox' = Append(pyOutbox, PyReply("error", "init", 0, NoVal, NoVal))
        /\ UNCHANGED <<py, pyTables>>
     \/ /\ pyOutbox' = Append(pyOutbox, PyReply("error", "init", 0, NoVal, NoVal))
        /\ py' = "undefined"
        /\ pyTables' = EmptyTables
  /\ UNCHANGED <<chatVars, uploadVars, pyInbox, published, plot, event, env>>

\* a register that acknowledges the table it has bound
PyRegisterAcks ==
  /\ pyInbox # <<>> /\ Head(pyInbox).type = "register"
  /\ pyInbox' = Tail(pyInbox)
  /\ LET msg == Head(pyInbox) IN
     /\ pyTables' = IF py = "ready" THEN BindTable(pyTables, msg.name, msg.records)
                     ELSE pyTables
     /\ pyOutbox' = Append(pyOutbox,
                           IF py = "ready"
                           THEN PyReply("registered", "register", msg.run, NoVal, NoVal)
                           ELSE ErrorReply(msg))
  /\ UNCHANGED <<chatVars, uploadVars, py, pyInit, published, plot, event, env>>

\* register: binds the dataframe, no reply; without a ready interpreter
\* py.runPythonAsync throws and the outer catch replies error
PyRegister ==
  /\ pyInbox # <<>> /\ Head(pyInbox).type = "register"
  /\ pyInbox' = Tail(pyInbox)
  /\ LET msg == Head(pyInbox) IN
     IF py = "ready"
     THEN /\ pyTables' = BindTable(pyTables, msg.name, msg.records)
          /\ UNCHANGED pyOutbox
     ELSE /\ pyOutbox' = Append(pyOutbox, ErrorReply(msg))
          /\ UNCHANGED pyTables
  /\ UNCHANGED <<chatVars, uploadVars, py, pyInit, published, plot, event, env>>

\* exec: the fixed harness over DemoTable; its result is posted as a plot
PyExec ==
  /\ pyInbox # <<>> /\ Head(pyInbox).type = "exec"
  /\ pyInbox' = Tail(pyInbox)
  /\ LET msg == Head(pyInbox) IN
     IF py = "ready" /\ ExecSucceeds(pyTables)
     THEN pyOutbox' = Append(pyOutbox, PyReply("result", "exec", msg.run, "plot", "figure json"))
     ELSE pyOutbox' = Append(pyOutbox, ErrorReply(msg))
  /\ UNCHANGED <<chatVars, uploadVars, py, pyInit, pyTables, published, plot, event, env>>

\* what pyWorker.onmessage appends to the chat for a reply
PyReplyMessages(rep) == <<>>

\* pyWorker.onmessage in Chat: a result is forwarded to the window, where
\* the listener of WidgetGrid handles it; any other reply is only logged
PyWorkerOnMessage ==
  /\ pyOutbox # <<>>
  /\ pyOutbox' = Tail(pyOutbox)
  /\ LET rep == Head(pyOutbox) IN
     /\ published' = IF rep.type = "result" THEN Append(published, rep) ELSE published
     /\ plot' = IF rep.type = "result"
                THEN WidgetHandleMessage(plot, WindowMessage(rep)) ELSE plot
     /\ event' = IF rep.type = "result" THEN Encoding(WindowMessage(rep)) ELSE event
     /\ messages' = messages \o PyReplyMessages(rep)
  /\ UNCHANGED <<sheets, isProcessing, runs, nQueries, uploadVars, py, pyInit,
                 pyTables, pyInbox, env>>

\* the message events the window delivers to WidgetGrid's listener: of the
\* worker's types, with a figure as an object or as its JSON text, a text
\* that is not JSON, or an empty text
WindowEvents ==
  {[type |-> "result", resultType |-> "plot", payload |-> p] :
     p \in {ObjectPayload(fig) : fig \in Figures}
           \cup {StringPayload(StringifyFigure(fig)) : fig \in Figures}
           \cup {StringPayload("not json"), StringPayload("")}}
  \cup {[type |-> t, resultType |-> k, payload |-> ObjectPayload(Figure(TRUE, HarnessTitle))] :
          t \in {"result", "ready"}, k \in {"table", "value"}}

\* window.postMessage from any script of the page
WindowPost ==
  /\ \E msg \in WindowEvents :
       /\ plot' = WidgetHandleMessage(plot, msg)
       /\ event' = Encoding(msg)
  /\ UNCHANGED <<chatVars, uploadVars, pyVars, env>>

\* ----------------------------------------------------- the worker's clients
\* the tables a client registers and runs code against
TableNames == {DemoTable, "fund_x_xlsx_Sheet1"}

\* the messages pyWorker.postMessage is called with: init (line 754),
\* register (486-490) and exec (635-640)
WorkerMessages ==
  {PyMsg("init", 0, NoVal, <<>>, NoVal, NoVal)}
  \cup {PyMsg("register", 0, n, ProcessedRecords(b), NoVal, NoVal) :
          n \in TableNames, b \in RecordBatches \ {<<>>}}
  \cup {PyMsg("exec", 0, n, <<>>, PyCode, k) : n \in TableNames, k \in {"plot", "table"}}

\* a postMessage to the worker, whatever the state of the pipeline; no init
\* is posted while another is waiting or pending
PostToWorker(msgs) ==
  /\ Len(pyInbox) < MaxWorkerInbox
  /\ Len(pyOutbox) + Len(published) < MaxWorkerReplies
  /\ \E msg \in msgs :
       /\ msg.type = "init" =>
            (pyInit = "none" /\ \A j \in 1..Len(pyInbox) : pyInbox[j].type # "init")
       /\ pyInbox' = Append(pyInbox, msg)
  /\ UNCHANGED <<chatVars, uploadVars, py, pyInit, pyTables, pyOutbox, published,
                 plot, event, env>>

\* the messages of a run over the demo table: its registration and its exec
DemoMessages ==
  {msg \in WorkerMessages :
     /\ msg.type # "init" /\ msg.name = DemoTable
     /\ msg.type = "register" => msg.records = ProcessedRecords(<<Rec1>>)
     /\ msg.type = "exec" => msg.resultType = "plot"}

\* ------------------------------------------------------------ specification
\* the other steps, with a fetch that gives up after a while: the pending
\* stage of a run throws an AbortError to the outer catch
OthersWithTimeout ==
  \/ HandleFileDrop
  \/ HandleFileSelect
  \/ ProcessFilesFinish
  \/ RenderWorkerOnMessage
  \/ RenderReplyHandled
  \/ PyInitStart
  \/ PyInitDone
  \/ PyRegister
  \/ PyExec
  \/ PyWorkerOnMessage
  \/ \E r \in QueryIds :
       /\ runs[r].pc \in {"planner", "extractor", "codegen"}
       /\ EndRun(r, runs[r], "error", TRUE,
                 <<Message(r, "error", "Error: The operation was aborted")>>)
       /\ UNCHANGED <<sheets, nQueries, uploadVars, pyVars, plot, event, env>>

\* everything but the submission of queries and the gateway's replies
Others ==
  \/ HandleFileDrop
  \/ HandleFileSelect
  \/ ProcessFilesFinish
  \/ RenderWorkerOnMessage
  \/ RenderReplyHandled
  \/ PyInitStart
  \/ PyInitDone
  \/ PyRegister
  \/ PyExec
  \/ PyWorkerOnMessage

\* one query, any plan of up to MaxTasks tasks
Next ==
  \/ Submit(MaxQueries)
  \/ \E r \in QueryIds : PlannerReply(r, PlannerResponses(MaxTasks))
  \/ \E r \in QueryIds : ExtractorReply(r, ExtractorResponses)
  \/ \E r \in QueryIds : CodeGenReply(r, CodeGenResponses)
  \/ Others

Spec == Init /\ [][Next]_vars

\* the extractor responses of the concurrent runs: every failure, and of the
\* accepted batches the one of Rec1
ConcurrentExtractorResponses ==
  {resp \in ExtractorResponses :
     ExtractorOutcome(resp).kind = "records" => ExtractorOutcome(resp).records = <<Rec1>>}

\* the code generation responses of the concurrent runs: every failure, and
\* of the accepted ones PyCode as a plot or a table
ConcurrentCodeGenResponses ==
  {resp \in CodeGenResponses :
     CodeGenOutcome(resp).kind = "code" =>
       /\ CodeGenOutcome(resp).python = PyCode
       /\ CodeGenOutcome(resp).result_type \in {"plot", "table"}}

\* several queries, plans of up to MaxConcurrentTasks tasks
NextConcurrent ==
  \/ Submit(MaxConcurrentQueries)
  \/ \E r \in QueryIds : PlannerReply(r, PlannerResponses(MaxConcurrentTasks))
  \/ \E r \in QueryIds : ExtractorReply(r, ConcurrentExtractorResponses)
  \/ \E r \in QueryIds : CodeGenReply(r, ConcurrentCodeGenResponses)
  \/ Others

SpecConcurrent == Init /\ [][NextConcurrent]_vars

\* the pipeline and the uploads, with the py worker left out of the schedule
NextGateway ==
  \/ Submit(MaxQueries)
  \/ \E r \in QueryIds : PlannerReply(r, PlannerResponses(MaxTasks))
  \/ \E r \in QueryIds : ExtractorReply(r, ExtractorResponses)
  \/ \E r \in QueryIds : CodeGenReply(r, CodeGenResponses)
  \/ HandleFileDrop
  \/ HandleFileSelect
  \/ ProcessFilesFinish
  \/ RenderWorkerOnMessage
  \/ RenderReplyHandled

SpecGateway == Init /\ [][NextGateway]_vars

\* plans over the sheets of the workbook that has several
SheetTasks == {Task("fund_x.xlsx", s) : s \in WorkbookSheets("fund_x.xlsx")}
SheetPlans ==
  {Response(TRUE, TRUE, "extract_tasks", Json(TasksObj(t)), NoText) :
     t \in SeqsUpTo(SheetTasks, MaxTasks)}

\* extractions with and without column_labels, of records that have the same
\* columns and of records that have not
SheetExtractions ==
  {Response(FALSE, TRUE, "none", NoText, NoText)}
  \cup {Response(TRUE, TRUE, "extract_records", Json(obj), NoText) :
          obj \in {RecordsObj(<<Rec1>>), LegendObj(<<Rec1>>),
                   RecordsObj(<<Rec1, WideRec>>), LegendObj(<<Rec1, WideRec>>)}}

SheetCodeGen ==
  {Response(FALSE, TRUE, "none", NoText, NoText),
   Response(TRUE, TRUE, "generate_python_code", Json(CodeObj(PyCode, "plot")), NoText)}

\* one query over a workbook of several sheets
NextSheets ==
  \/ Submit(MaxQueries)
  \/ \E r \in QueryIds : PlannerReply(r, SheetPlans)
  \/ \E r \in QueryIds : ExtractorReply(r, SheetExtractions)
  \/ \E r \in QueryIds : CodeGenReply(r, SheetCodeGen)
  \/ Others

SpecSheets == Init /\ [][NextSheets]_vars

\* a session built without VITE_OPENAI_KEY
SpecUnconfigured == InitWith(NoVal) /\ [][Next]_vars

\* the py worker alone, with any sequence of messages posted to it
NextWorker ==
  \/ PostToWorker(WorkerMessages)
  \/ PyInitStart
  \/ PyInitDone
  \/ PyRegister
  \/ PyExec
  \/ PyWorkerOnMessage

SpecWorker == Init /\ [][NextWorker]_vars

\* the worker and the widget, with any sequence of window messages
NextWidget ==
  \/ WindowPost
  \/ PostToWorker(DemoMessages)
  \/ PyInitStart
  \/ PyInitDone
  \/ PyRegister
  \/ PyExec
  \/ PyWorkerOnMessage

SpecWidget == Init /\ [][NextWidget]_vars

\* every fetch of the Model Gateway returns
GatewayReturns ==
  \A r \in QueryIds :
    /\ WF_vars(PlannerReply(r, PlannerResponses(MaxTasks)))
    /\ WF_vars(ExtractorReply(r, ExtractorResponses))
    /\ WF_vars(CodeGenReply(r, CodeGenResponses))

LiveSpec == Spec /\ GatewayReturns

\* ------------------------------------------------------------------ claims
InFlight(r) == runs[r].pc \in {"planner", "extractor", "codegen"}

\* the chat entries of kind kind that query r appended
Entries(r, kind) ==
  Cardinality({j \in 1..Len(messages) : messages[j].run = r /\ messages[j].kind = kind})

\* the messages of query r in a queue of the py worker
PostsIn(q, r) == Cardinality({j \in 1..Len(q) : q[j].run = r})

\* the gateway requests and worker posts query r has made
Effort(r) == <<runs[r].nPlanner, runs[r].nExtract, runs[r].nCodeGen,
               runs[r].nRegister, runs[r].nExec>>

\* C1: at most one run is in progress at any time, under every interleaving
\* of submissions, uploads, drops and worker replies.
C1_SingleFlight == Cardinality({r \in QueryIds : InFlight(r)}) <= 1

\* C2: once a stage of a run has failed, the run makes no further gateway
\* request and posts no further register or exec message, neither in the
\* step that fails nor later.
C2_NothingAfterFailure ==
  [][\A r \in QueryIds :
       runs'[r].failed =>
         /\ Effort(r)' = Effort(r)
         /\ PostsIn(pyInbox', r) <= PostsIn(pyInbox, r)]_vars

\* a run whose second extraction failed after its first had succeeded
C2_Witness ==
  \E r \in QueryIds :
    /\ runs[r].failed /\ runs[r].nExtract = 2
    /\ runs[r].nRegister = 0 /\ runs[r].nCodeGen = 0 /\ runs[r].nExec = 0

\* C3: if every gateway call returns, every run that is in progress
\* eventually ends with the processing flag false, so that a query can be
\* submitted again.
C3_ReturnsToIdle ==
  \A r \in QueryIds :
    InFlight(r) ~> (runs[r].pc = "done" /\ SubmitAllowed(isProcessing))

\* a run that ended with an error at the extractor, the flag false
C3_Witness ==
  \E r \in QueryIds :
    /\ runs[r].pc = "done" /\ runs[r].outcome = "error" /\ runs[r].nExtract = 1
    /\ ~isProcessing

\* C4: a run started with a sheet in the inventory ends with a visible
\* outcome: once it is done and the worker has answered all it posted, the
\* chat holds a clarification or an error of the run, or a result of the run
\* was published.
C4_VisibleOutcome ==
  \A r \in QueryIds :
    ( /\ runs[r].pc = "done" /\ runs[r].outcome # "nodata"
      /\ PostsIn(pyInbox, r) = 0 /\ PostsIn(pyOutbox, r) = 0 )
    => \/ Entries(r, "clarification") > 0
       \/ Entries(r, "error") > 0
       \/ PostsIn(published, r) > 0

\* C5: a run whose gateway stage raised an error has exactly one error entry
\* in the chat, and a run that raised none has no error entry.
C5_OneErrorEntry ==
  \A r \in QueryIds : Entries(r, "error") = (IF runs[r].failed THEN 1 ELSE 0)

\* a run that failed at code generation and has its one error entry
C5_Witness ==
  \E r \in QueryIds :
    runs[r].failed /\ runs[r].nCodeGen = 1 /\ Entries(r, "error") = 1

\* C6: whenever Chat receives an error reply of the py worker, it appends an
\* entry to the chat.
C6_SandboxErrorSurfaced ==
  [][( /\ pyOutbox # <<>>
       /\ Head(pyOutbox).type = "error"
       /\ pyOutbox' = Tail(pyOutbox) )
     => Len(messages') > Len(messages)]_vars

\* C7: no run goes on to extraction, registration or code generation with a
\* task whose fileId is not a fileId of the inventory.
C7_UnknownFileRejected ==
  \A r \in QueryIds :
    runs[r].pc \in {"extractor", "codegen"}
      => ~HasInvalidFileId(runs[r].tasks, runs[r].sheets)

\* C8: no run goes on past planning with a task whose (fileId, sheetId) pair
\* matches no sheet of the inventory.
C8_UnknownSheetRejected ==
  \A r \in QueryIds :
    runs[r].pc \in {"extractor", "codegen"}
      => \A j \in 1..Len(runs[r].tasks) : SheetFound(runs[r].tasks[j], runs[r].sheets)

\* C9: a well-formed clarification is shown verbatim, and a run that showed
\* a clarification has ended without an error: it has one clarification
\* entry, no error entry, and has made no extraction or code generation
\* request and posted no register or exec message.
C9_ClarificationStops ==
  /\ \A resp \in PlannerResponses(MaxTasks) :
       (resp.ok /\ resp.choices /\ resp.fc = "clarify_user_intent"
          /\ resp.args.form = "object" /\ resp.args.obj.clarification # NoVal)
       => PlannerOutcome(resp, sheets) = Clarify(resp.args.obj.clarification)
  /\ \A r \in QueryIds :
       Entries(r, "clarification") > 0 =>
         /\ runs[r].pc = "done" /\ runs[r].outcome = "clarification"
         /\ ~runs[r].failed
         /\ Entries(r, "clarification") = 1 /\ Entries(r, "error") = 0
         /\ Effort(r) = <<1, 0, 0, 0, 0>>
         /\ PostsIn(pyInbox, r) = 0

\* a run that ended by showing the planner's clarification text
C9_Witness ==
  \E r \in QueryIds :
    /\ runs[r].pc = "done" /\ runs[r].outcome = "clarification"
    /\ \E j \in 1..Len(messages) :
         messages[j] = Message(r, "clarification", ClarText)

\* C10: only a well-formed clarification is shown as a clarification: every
\* clarification entry carries the clarification text of the response, never
\* a stand-in for arguments that do not parse or carry no text.
C10_OnlyWellFormedClarification ==
  \A j \in 1..Len(messages) :
    messages[j].kind = "clarification"
      => messages[j].text \notin {NoVal, FallbackClarification}

\* the planner stage handed a task list to the extraction loop: the loop
\* requested an extraction or, with no task to extract, code generation
HandedToExtraction(r) == runs[r].nExtract + runs[r].nCodeGen > 0

\* C11: the planner stage of a run produces exactly one outcome: once the
\* planner has answered, the run has shown a clarification, or handed a task
\* list to extraction, or ended with a planning error, and never two of
\* these; in particular never a clarification together with a task list.
C11_ExactlyOneOutcome ==
  \A r \in QueryIds :
    ( runs[r].pc \notin {"idle", "planner"} /\ runs[r].outcome # "nodata" ) =>
      LET clar   == Entries(r, "clarification") > 0
          handed == HandedToExtraction(r)
          failed == Entries(r, "error") > 0 /\ ~HandedToExtraction(r)
      IN /\ ~(clar /\ handed)
         /\ ~(clar /\ failed)
         /\ (clar \/ handed \/ failed)

\* a run that showed a clarification and handed nothing to extraction
C11_Witness ==
  \E r \in QueryIds :
    /\ runs[r].pc = "done" /\ runs[r].nPlanner = 1
    /\ Entries(r, "clarification") = 1 /\ Entries(r, "error") = 0
    /\ ~HandedToExtraction(r)

\* the batches a run has accepted and still holds for registration
AcceptedBatches(r) ==
  {runs[r].extractedData[j].records : j \in 1..Len(runs[r].extractedData)}

\* C12: every extraction batch a run has accepted is non-empty and every
\* record of it has a date field.
C12_AcceptedBatchHasDates ==
  \A r \in QueryIds : \A b \in AcceptedBatches(r) :
    /\ Len(b) > 0
    /\ \A j \in 1..Len(b) : "date" \in DOMAIN b[j]

\* C13: in every extraction batch a run has accepted, two records that have
\* the same labelled column give it the same label.
C13_OneLabelPerColumn ==
  \A r \in QueryIds : \A b \in AcceptedBatches(r) :
    \A j, k \in 1..Len(b) :
      \A c \in DOMAIN b[j] \cap DOMAIN b[k] :
        (b[j][c].kind = "object" /\ b[k][c].kind = "object") => b[j][c].label = b[k][c].label

\* the run failed at an extraction: after an extraction request and before
\* any code generation request
ExtractionFailed(r) ==
  runs[r].failed /\ runs[r].nExtract > 0 /\ runs[r].nCodeGen = 0

\* C14: a run that failed at an extraction has posted no register message,
\* for no task, and has made no code generation request; no step binds a
\* table for it in the sandbox.
C14_NoRegisterOnExtractionFailure ==
  [][\A r \in QueryIds :
       ExtractionFailed(r)' =>
         /\ runs'[r].nRegister = 0
         /\ PostsIn(pyInbox', r) = 0
         /\ (pyTables' # pyTables => Head(pyInbox).run # r)]_vars

\* a run whose first extraction succeeded and whose second failed, with the
\* interpreter ready to take a register message
C14_Witness ==
  \E r \in QueryIds :
    /\ ExtractionFailed(r) /\ runs[r].nExtract = 2
    /\ runs[r].nRegister = 0 /\ PostsIn(pyInbox, r) = 0
    /\ py = "ready"

\* C15: a code generation response is accepted only with code text and a
\* result kind among plot, table and value: every exec message posted to the
\* worker carries such a kind and a code text.
C15_ExecOnlyForValidCode ==
  \A j \in 1..Len(pyInbox) :
    pyInbox[j].type = "exec" =>
      pyInbox[j].code # NoVal /\ pyInbox[j].resultType \in ResultKinds

\* C16: a query submitted while the inventory is empty halts at once with
\* the no-data message: the step appends the query and the message, makes no
\* gateway request, posts nothing to the worker and leaves the processing
\* flag as it was; the run does nothing afterwards.
C16_NoDataHalts ==
  [][\A r \in QueryIds :
       /\ (runs[r].pc = "idle" /\ runs'[r].pc # "idle" /\ sheets = {}) =>
            /\ runs'[r].pc = "done"
            /\ messages' = messages \o <<Message(r, "user", "query"),
                                         Message(r, "info", "Please drop an Excel file first")>>
            /\ Effort(r)' = <<0, 0, 0, 0, 0>>
            /\ pyInbox' = pyInbox
            /\ isProcessing' = isProcessing
       /\ (runs[r].outcome = "nodata" => runs'[r] = runs[r])]_vars

\* a query that was answered with the no-data message
C16_Witness ==
  \E r \in QueryIds :
    /\ runs[r].pc = "done" /\ runs[r].outcome = "nodata"
    /\ Entries(r, "info") = 1 /\ Effort(r) = <<0, 0, 0, 0, 0>>

\* a step in which the worker handles an exec message and replies
ExecHandled ==
  /\ pyInbox # <<>> /\ Head(pyInbox).type = "exec"
  /\ pyInbox' = Tail(pyInbox)
  /\ Len(pyOutbox') = Len(pyOutbox) + 1

\* the exec message handled by the step, and the reply to it
ExecRequest == Head(pyInbox)
ExecReply   == pyOutbox'[Len(pyOutbox')]

\* the code text has an assignment to result
AssignsResult(code) ==
  \E i \in 1..Len(code) : i + 7 <= Len(code) /\ SubSeq(code, i, i + 7) = "result ="

\* the payload is the figure the harness builds
IsFigure(payload) == payload = "figure json"

\* C17: for every result kind K of plot, table and value, a successful exec
\* against a registered table that was requested with kind K is answered
\* with a result of kind K.
C17_ResultKindRoundTrip ==
  [][( /\ ExecHandled
       /\ ExecRequest.name \in DOMAIN pyTables
       /\ ExecRequest.resultType \in ResultKinds
       /\ ExecReply.type = "result" )
     => ExecReply.resultType = ExecRequest.resultType]_vars

\* C18: an exec whose code never assigns result is answered in band with a
\* failure: with a result message whose payload is a failure text, never
\* with a figure and never with an error message.
C18_MissingResultIsTaggedFailure ==
  [][( ExecHandled /\ py = "ready" /\ ~AssignsResult(ExecRequest.code) )
     => ( ExecReply.type = "result" /\ ~IsFigure(ExecReply.payload) )]_vars

\* C19: when the code run by exec raises inside the interpreter, the worker
\* answers with a result message, not with an error message.
C19_ExceptionIsResultMessage ==
  [][( ExecHandled /\ py = "ready" /\ ~ExecSucceeds(pyTables) )
     => ExecReply.type = "result"]_vars

\* C20: an exec whose code completes with a result that JSON cannot encode
\* is answered with a result message that carries a string payload, never
\* with an error message.
C20_UnencodableResultIsString ==
  [][( /\ ExecHandled /\ py = "ready"
       /\ ExecRequest.code = OpaqueCode
       /\ ExecRequest.name \in DOMAIN pyTables )
     => ( ExecReply.type = "result" /\ ExecReply.payload # NoVal )]_vars

\* a step in which the worker takes up the message at the head of its inbox
WorkerTakes(type) ==
  /\ pyInbox # <<>> /\ Head(pyInbox).type = type
  /\ Len(pyInbox') < Len(pyInbox)

\* a step in which a pending init comes to its end
InitEnds == pyInit = "loadPyodide" /\ pyInit' = "none"

\* the replies the worker posts in a step
Posted ==
  IF Len(pyOutbox') > Len(pyOutbox)
  THEN SubSeq(pyOutbox', Len(pyOutbox) + 1, Len(pyOutbox'))
  ELSE <<>>

\* C21: the worker handles one message at a time: while the handling of an
\* init is pending at an await, it takes up no other message.
C21_OneMessageAtATime ==
  [][pyInit = "loadPyodide" => Len(pyInbox') >= Len(pyInbox)]_vars

\* C22: the worker posts at most one reply per message, of the kind the
\* protocol allows: an init is answered when it ends, by ready or error; a
\* register by nothing when it has bound the table and by error otherwise;
\* an exec by result or error; and no other step posts a reply.
C22_RepliesFollowProtocol ==
  [][ /\ Len(Posted) <= 1
      /\ WorkerTakes("init") => Posted = <<>>
      /\ InitEnds =>
           Len(Posted) = 1 /\ Posted[1].re = "init" /\ Posted[1].type \in {"ready", "error"}
      /\ WorkerTakes("register") =>
           IF Head(pyInbox).name \in DOMAIN pyTables'
                /\ pyTables'[Head(pyInbox).name] = Head(pyInbox).records
                /\ py = "ready"
           THEN Posted = <<>>
           ELSE Len(Posted) = 1 /\ Posted[1].type = "error" /\ pyTables' = pyTables
      /\ WorkerTakes("exec") =>
           Len(Posted) = 1 /\ Posted[1].re = "exec" /\ Posted[1].type \in {"result", "error"}
      /\ ( ~InitEnds /\ Len(pyInbox') >= Len(pyInbox) ) => Posted = <<>> ]_vars

\* a register was refused with an error reply, and another has bound a table
C22_Witness ==
  /\ \E j \in 1..Len(pyOutbox) : pyOutbox[j].re = "register" /\ pyOutbox[j].type = "error"
  /\ pyTables # EmptyTables

\* C23: register is last-write-wins per name: after a register the name is
\* bound to the rows of that message only, and every other table is as it
\* was.
C23_RegisterLastWriteWins ==
  [][( WorkerTakes("register") /\ py = "ready" ) =>
       LET msg == Head(pyInbox) IN
       /\ DOMAIN pyTables' = DOMAIN pyTables \cup {msg.name}
       /\ pyTables'[msg.name] = msg.records
       /\ \A n \in DOMAIN pyTables \ {msg.name} : pyTables'[n] = pyTables[n]]_vars

\* the demo table was bound to rows the harness made a figure of, and is now
\* bound to rows without a date; another table is bound beside it
C23_Witness ==
  /\ py = "ready" /\ Len(published) > 0
  /\ DemoTable \in DOMAIN pyTables /\ ~ExecSucceeds(pyTables)
  /\ "fund_x_xlsx_Sheet1" \in DOMAIN pyTables

\* the register messages a step of run r posts when it leaves the extraction
\* loop
Registered(r) ==
  IF runs[r].pc # "codegen" /\ runs'[r].pc = "codegen"
  THEN SubSeq(pyInbox', Len(pyInbox) + 1, Len(pyInbox'))
  ELSE <<>>

\* C24: every row a run registers has the column keys of the record it was
\* made from (records with a date), with the date, the bare value of every
\* {value, label} column and every scalar column as it is.
C24_RegistrationKeepsColumns ==
  [][\A r \in QueryIds :
       \A j \in 1..Len(Registered(r)) :
         LET rows == Registered(r)[j].records
             recs == runs'[r].extractedData[j].records
         IN \A i \in 1..Len(rows) :
              "date" \in DOMAIN recs[i] =>
                /\ DOMAIN rows[i] = DOMAIN recs[i]
                /\ \A c \in DOMAIN rows[i] \cap DOMAIN recs[i] :
                     rows[i][c] = recs[i][c].value]_vars

\* a window message of type result and kind plot
PlotEvent(payload) == [type |-> "result", resultType |-> "plot", payload |-> payload]

GatewayRequests(r) == runs[r].nPlanner + runs[r].nExtract + runs[r].nCodeGen

\* C26: no run sends a Model Gateway request when the session has no
\* credential.
C26_NoRequestWithoutCredential ==
  \A r \in QueryIds : GatewayRequests(r) > 0 => env # NoVal

\* C27: init is idempotent: an init that ends when an interpreter is already
\* loaded leaves that interpreter and every table registered in it as they
\* were.
C27_InitIdempotent ==
  [][(InitEnds /\ py = "ready") => (py' = py /\ pyTables' = pyTables)]_vars

\* a step in which the gateway call run r is waiting for returns
GatewayReturnsTo(r) ==
  \/ PlannerReply(r, PlannerResponses(MaxTasks))
  \/ ExtractorReply(r, ExtractorResponses)
  \/ CodeGenReply(r, CodeGenResponses)

\* C28: while a run waits for a Model Gateway call, only the return of that
\* call moves it: no other step changes the run, ends it, or appends an
\* error entry of it, so a call that never returns leaves the run in
\* progress for ever.
C28_OnlyTheReplyMovesARun ==
  [][\A r \in QueryIds :
       ( /\ InFlight(r)
         /\ \/ runs'[r] # runs[r]
            \/ Entries(r, "error")' # Entries(r, "error") )
       => GatewayReturnsTo(r)]_vars

\* a run waits for the gateway and nothing else is left to happen
C28_Witness ==
  /\ \E r \in QueryIds : runs[r].pc = "codegen" /\ runs[r].nExtract > 0
  /\ nUploads = MaxUploads /\ fileReads = <<>>
  /\ renderInbox = <<>> /\ renderReplies = <<>>
  /\ pyInbox = <<>> /\ pyOutbox = <<>> /\ pyInit = "none"

\* the exec messages of run r the worker has not taken up yet
ExecsWaiting(r) ==
  {j \in 1..Len(pyInbox) : pyInbox[j].run = r /\ pyInbox[j].type = "exec"}

\* C29: a run is over only when the worker has replied to its exec: no run
\* that has ended has an exec still waiting in the worker's inbox.
C29_IdleOnlyAfterExecReply ==
  \A r \in QueryIds : runs[r].pc = "done" => ExecsWaiting(r) = {}

\* the responses with a non-success status
NonSuccess(responses) == {resp \in responses : ~resp.ok}

\* a step in which run r ends in the outer catch with the error text, having
\* taken nothing from the response: no further request, nothing for the worker
TransportFailure(r, text) ==
  /\ runs'[r].pc = "done" /\ runs'[r].failed
  /\ messages' = messages \o OuterCatchMessages(r, text)
  /\ GatewayRequests(r)' = GatewayRequests(r)
  /\ pyInbox' = pyInbox

ByCall(name, obj) == Response(TRUE, TRUE, name, Json(obj), NoText)
ByText(obj)       == Response(TRUE, TRUE, "none", NoText, Json(obj))

\* two outcomes are the same: the same accepted value, or a rejection both
SameOutcome(a, b) ==
  IF a.kind \in {"throw", "error"} THEN b.kind \in {"throw", "error"} ELSE a = b

\* C31: at each stage a payload has the same outcome as function-call
\* arguments and as a text body: the same tasks, records or code, or a
\* rejection in both.
C31_CarriersAgree ==
  \A r \in QueryIds :
    /\ runs[r].pc = "planner" =>
         \A t \in TaskLists(MaxTasks) :
           SameOutcome(PlannerOutcome(ByCall("extract_tasks", TasksObj(t)), runs[r].sheets),
                       PlannerOutcome(ByText(TasksObj(t)), runs[r].sheets))
    /\ runs[r].pc = "extractor" =>
         \A b \in RecordBatches :
           SameOutcome(ExtractorOutcome(ByCall("extract_records", RecordsObj(b))),
                       ExtractorOutcome(ByText(RecordsObj(b))))
    /\ runs[r].pc = "codegen" =>
         \A code \in {PyCode, NoVal}, k \in ResultKinds \cup {NoVal} :
           SameOutcome(CodeGenOutcome(ByCall("generate_python_code", CodeObj(code, k))),
                       CodeGenOutcome(ByText(CodeObj(code, k))))

\* C32: exec runs what the request names: an exec is answered with a result
\* only when the table it names is bound, and the result of the code
\* "result = df" is that table, not the figure of a fixed harness.
C32_ExecRunsTheRequest ==
  [][( ExecHandled /\ py = "ready" /\ ExecReply.type = "result" )
     => ( /\ ExecRequest.name \in DOMAIN pyTables
          /\ ExecRequest.code = PyCode => ~IsFigure(ExecReply.payload) )]_vars

\* the positions of the messages of kind type that run r has in a queue
PositionsIn(q, r, type) == {j \in 1..Len(q) : q[j].run = r /\ q[j].type = type}

\* C33: the events of a run come in the order planner request, extraction
\* requests in task order each after the response before it was accepted,
\* register messages, code generation request, exec messages: a step of the
\* run that sends an extraction request comes before any register, code
\* generation request or exec; the registers are posted when the last
\* extraction has been accepted, with the code generation request after them;
\* execs are posted only on the code generation response; and in the worker's
\* inbox no exec of the run stands before a register of it.
C33_StageOrder ==
  [][\A r \in QueryIds :
       LET old == runs[r]
           new == runs'[r]
       IN
       /\ new.nExtract > old.nExtract =>
            /\ old.pc \in {"planner", "extractor"} /\ old.nPlanner = 1
            /\ new.i > old.i /\ ~new.failed
            /\ new.nRegister = 0 /\ new.nCodeGen = 0 /\ new.nExec = 0
       /\ new.nRegister > old.nRegister =>
            /\ old.pc \in {"planner", "extractor"} /\ ~new.failed
            /\ new.i > Len(new.tasks)
            /\ old.nRegister = 0 /\ old.nCodeGen = 0 /\ new.nExec = 0
            /\ new.nCodeGen = 1
       /\ new.nCodeGen > old.nCodeGen =>
            /\ old.pc \in {"planner", "extractor"} /\ new.i > Len(new.tasks)
            /\ new.nExec = 0
       /\ new.nExec > old.nExec =>
            /\ old.pc = "codegen" /\ old.nCodeGen = 1 /\ ~new.failed
       /\ \A a \in PositionsIn(pyInbox', r, "register"),
            b \in PositionsIn(pyInbox', r, "exec") : a < b]_vars

\* a run of two tasks that has gone through every stage (both tasks name the
\* one sheet of the inventory, so one table is registered)
C33_Witness ==
  \E r \in QueryIds :
    /\ runs[r].outcome = "completed"
    /\ Effort(r) = <<1, 2, 1, 1, 2>>

\* C34: no gateway request is sent twice: a run sends the planner request
\* at most once and the code generation request at most once; an extraction
\* request is sent for one task at a time, each for a later position of the
\* task list than the one before; and a run that has failed sends nothing.
C34_NoRetry ==
  [][\A r \in QueryIds :
       LET old == runs[r]
           new == runs'[r]
       IN
       /\ new.nPlanner <= 1 /\ new.nCodeGen <= 1
       /\ new.nExtract > old.nExtract =>
            /\ new.nExtract = old.nExtract + 1
            /\ new.i > old.i /\ new.i <= Len(new.tasks)
            /\ new.nExtract <= new.i
       /\ (old.failed \/ new.failed) => GatewayRequests(r)' = GatewayRequests(r)]_vars

\* a run whose second extraction failed and that sent nothing after it
C34_Witness ==
  \E r \in QueryIds :
    /\ runs[r].pc = "done" /\ runs[r].failed
    /\ runs[r].nPlanner = 1 /\ runs[r].nExtract = 2 /\ runs[r].nCodeGen = 0

\* the column labels the code generation request of a run carries: for each
\* table those of the {value, label} columns of its first record (envContext),
\* and the columnLabels mapping (columnLabelsContext)
CarriedLabels(run) ==
  run.columnLabels
    \cup UNION {RecordLabels(run.extractedData[j].records[1]) :
                 j \in 1..Len(run.extractedData)}

\* C35: the code generation request of a run carries the label of every
\* labelled column of every batch the run has registered.
C35_LabelsReachCodeGen ==
  \A r \in QueryIds :
    runs[r].pc = "codegen" =>
      \A j \in 1..Len(runs[r].extractedData) :
        BatchLabels(runs[r].extractedData[j].records) \subseteq CarriedLabels(runs[r])

\* C36: the worker takes up a register or an exec message of a run only
\* when init has completed and the interpreter is loaded.
C36_NothingBeforeReady ==
  [][( WorkerTakes("register") \/ WorkerTakes("exec") ) => py = "ready"]_vars

\* the table names a run has registered: one per entry of extractedData
RegisteredNames(run) ==
  {Sanitize(run.extractedData[k].key) : k \in 1..Len(run.extractedData)}

\* C37: every exec message a run posts names a table the run has posted a
\* register message for.
C37_ExecNamesRegisteredTable ==
  [][\A r \in QueryIds :
       runs'[r].nExec > runs[r].nExec =>
         \A j \in PositionsIn(pyInbox', r, "exec") :
           pyInbox'[j].name \in RegisteredNames(runs[r])]_vars

\* C38: the register messages a run posts for the batches of different
\* sheets carry different table names.
C38_TableNamesInjective ==
  [][\A r \in QueryIds :
       \A a, b \in 1..Len(Registered(r)) :
         runs'[r].extractedData[a].key # runs'[r].extractedData[b].key
           => Registered(r)[a].name # Registered(r)[b].name]_vars

\* the exec messages a step of run r posts, one per task
Executed(r) ==
  IF runs'[r].nExec > runs[r].nExec
  THEN SubSeq(pyInbox', Len(pyInbox) + 1, Len(pyInbox'))
  ELSE <<>>

\* C39: the exec message of a task names the table under which the records
\* of that task are registered: the sanitized key of the task.
C39_ExecNameIsRegisterName ==
  [][\A r \in QueryIds :
       \A j \in 1..Len(Executed(r)) :
         LET task == runs[r].tasks[j] IN
         /\ Executed(r)[j].name = Sanitize(DataKey(task))
         /\ \A k \in 1..Len(runs[r].extractedData) :
              runs[r].extractedData[k].key = DataKey(task)
                => RegisterMessages(r, runs[r].extractedData)[k].name = Executed(r)[j].name]_vars

\* an exec for a sheet whose name has a character that is replaced
C39_Witness ==
  \E j \in 1..Len(pyInbox) :
    /\ pyInbox[j].type = "exec" /\ pyInbox[j].name = "fund_x_xlsx_Net_1"
    /\ \E r \in QueryIds : runs[r].nRegister > 0 /\ pyInbox[j].run = r

\* C40: the inventory keeps the sheets of every uploaded file: no step takes
\* the sheets of a file out of the inventory unless it puts sheets of that
\* file in.
C40_InventoryKeepsFiles ==
  [][\A sh \in sheets :
       sh \in sheets' \/ \E new \in sheets' : new.fileId = sh.fileId]_vars

====
